---- MODULE Spec2Model ----
(***************************************************************************)
(* PixelBlastBackground (src/public/app.jsx, lines 27-82): the falling-    *)
(* glyph background of the BackupIQ landing page.  The model is the        *)
(* component's effect closure (w, h, columns, symbols, yPositions,         *)
(* animationFrameId), the host it runs on (window size, the animation      *)
(* frame callback list, the resize listener, the canvas) and the events    *)
(* the host delivers: mount, display refresh, resize, unmount.             *)
(*                                                                         *)
(* Column index i of the code (0-based) is index i + 1 of the sequences.   *)
(***************************************************************************)
EXTENDS Integers, Sequences, FiniteSets, TLC

\* ---------------------------------------------------------------- bounds

\* Animation frame handles the host hands out in one run: the handle counter
\* is unbounded in the browser, a refresh that would need a handle beyond
\* this one is not delivered.
MaxFrameId == 8

\* Resize events the host delivers in one run.
MaxResizes == 2

\* Invocations of the effect's cleanup closure in one run (the second one is
\* the repeated cancel).
MaxCancels == 2

\* ------------------------------------------------------ program constants

\* Column pitch and row advance: i * 20 and y + 20.
CellSize == 20

\* Array.from({ length: 128 }, ...).
PaletteLength == 128

\* 0x30a0, the first codepoint of the palette.
PaletteBase == 12448

\* y > 100 + Math.random() * 10000.
ThresholdBase == 100

ThresholdSpan == 10000

\* ----------------------------------------------------------------- inputs

\* Resize events the host delivers in one run of LiveSpec.
MaxLiveResizes == 1

\* Viewport widths of the host window in LiveSpec: 1 and 2 columns.
LiveWidths == {19, 20}

\* Columns whose rolls are chosen independently of each other in one draw.
MaxFreeColumns == 3

\* Viewport widths of the host window in WideSpec: 128 columns, as many as
\* the palette has entries, and 129 columns.
WideWidths == {2540, 2560}

\* Frame handles the host hands out in one run of TallSpec: enough for a
\* column to be reset and then climb as far as it can.
MaxTallFrameId == 514

\* Viewport widths of the host window in TallSpec: 1 column.
TallWidths == {19}

\* Values of floor(Math.random() * 10000) in the ticks of TallSpec: the
\* lowest and the highest.
TallRolls == {0, ThresholdSpan - 1}

\* Viewport sizes of the host window; floor(w / 20) + 1 gives 1, 2 and 3
\* columns.
Widths == {19, 20, 45}

Heights == {300, 600}

\* Values of floor(Math.random() * 10000).  Math.random() is in [0, 1), so the
\* value is in 0 .. 9999; positions are integers, so y > 100 + Math.random()
\* * 10000 holds exactly when y > 100 + floor(Math.random() * 10000).
Rolls == {0, 20, ThresholdSpan - 1}

\* ------------------------------------------------------------------ state

VARIABLES
    innerWidth,        \* window.innerWidth
    innerHeight,       \* window.innerHeight
    canvasPresent,     \* canvasRef.current is an element when the effect runs
    contextAvailable,  \* canvas.getContext('2d') returns a context, not null
    canvasWidth,       \* canvas.width
    canvasHeight,      \* canvas.height
    pendingFrames,     \* handles in the host's animation frame callback list
    lastHandle,        \* the host's animation frame callback identifier
    listening,         \* handleResize is registered for 'resize'
    phase,             \* "rendered", "mounted", "noCanvas", "threw"
    unmounted,         \* the component has been unmounted
    cancels,           \* invocations of the cleanup closure so far
    resizes,           \* resize events delivered so far
    raised,            \* a TypeError has propagated out of a handler
    w,                 \* closure variable w
    h,                 \* closure variable h
    columns,           \* closure variable columns
    symbols,           \* closure constant symbols
    yPositions,        \* closure variable yPositions
    animationFrameId,  \* closure variable animationFrameId (0: undefined)
    lastOp,            \* the last step: "mount", "tick" (a refresh that ran render),
                       \* "refresh" (one that found no callback), "resize",
                       \* "unmount", "cancel"; "none" before the first
    calls,             \* the draw calls issued on the context by the last step
    thresholds,        \* the thresholds computed by the last step, in the order
                       \* of its calls of Math.random()
    frames,            \* runs of draw that issued calls on the context so far
    ticks,             \* display refreshes that ran the render callback so far
    unmountTick,       \* the value of ticks at the unmount (-1 before it)
    priorW,            \* w before the last resize handled (-1: none handled)
    sinceZero          \* per column: the draws that advanced it since it was
                       \* last set to 0 (by its creation, a resize or a reset)

vars == <<innerWidth, innerHeight, canvasPresent, contextAvailable,
          canvasWidth, canvasHeight, pendingFrames, lastHandle, listening,
          phase, unmounted, cancels, resizes, raised, w, h, columns, symbols,
          yPositions, animationFrameId, lastOp, calls, thresholds, frames,
          ticks, unmountTick, priorW, sinceZero>>

host == <<canvasPresent, contextAvailable>>

closure == <<w, h, columns, symbols, yPositions, animationFrameId>>

\* ---------------------------------------------------------------- helpers

\* Array(n).fill(0)
Zeros(n) == [i \in 1..n |-> 0]

\* Mutant of ColumnCount: the column beyond the last whole one is forgotten.
ColumnCountWhole(width) == width \div CellSize

\* Mutant of ColumnCount: Math.ceil(w / 20) in place of Math.floor(w / 20) + 1.
ColumnCountCeil(width) == (width + CellSize - 1) \div CellSize

\* Math.floor(w / 20) + 1
ColumnCount(width) == (width \div CellSize) + 1

\* Mutant of Palette: every other codepoint from the base.
PaletteSparse == [i \in 1..PaletteLength |-> PaletteBase + 2 * (i - 1)]

\* Array.from({ length: 128 }, (_, i) => 0x30a0 + i)
Palette == [i \in 1..PaletteLength |-> PaletteBase + (i - 1)]

\* String.fromCharCode(symbols[i]): the code unit of the one-character
\* string; symbols[i] is undefined beyond the palette and converts to 0.
FromCharCode(syms, i) == IF i \in DOMAIN syms THEN syms[i] % 65536 ELSE 0

\* Mutant of Threshold: Math.random() can return 1.
ThresholdInclusive(roll) == ThresholdBase + roll + 1

\* 100 + Math.random() * 10000, for the roll floor(Math.random() * 10000).
Threshold(roll) == ThresholdBase + roll

FillRect(x, y, fw, fh) ==
    [op |-> "fillRect", text |-> 0, x |-> x, y |-> y, w |-> fw, h |-> fh]

FillText(text, x, y) ==
    [op |-> "fillText", text |-> text, x |-> x, y |-> y, w |-> 0, h |-> 0]

\* ------------------------------------------------------------------- draw

\* Mutant of Advance: a column drawn exactly at its threshold is reset too.
AdvanceAtThreshold(y, roll) == IF y >= Threshold(roll) THEN 0 ELSE y + CellSize

\* Mutant of Advance: the comparison is inverted.
AdvanceInverted(y, roll) == IF y < Threshold(roll) THEN 0 ELSE y + CellSize

\* Lines 40-44: the new position of a column drawn at y, for this roll.
Advance(y, roll) == IF y > Threshold(roll) THEN 0 ELSE y + CellSize

\* Mutant of Glyph: the column is drawn where it will be after the update.
GlyphAfterUpdate(syms, i, y) ==
    FillText(FromCharCode(syms, i), (i - 1) * CellSize, y + CellSize)

\* Lines 37-39: the fillText call of column i drawn at y.
Glyph(syms, i, y) == FillText(FromCharCode(syms, i), (i - 1) * CellSize, y)

\* Lines 37-44: the callback of forEach for column i, whose element is y
\* when the callback runs: it draws the column, calls Math.random() once
\* (roll) and computes the new value of the column's own element.
Visit(y, i, syms, roll) ==
    [y         |-> Advance(y, roll),
     call      |-> Glyph(syms, i, y),
     threshold |-> Threshold(roll)]

\* Mutant of ForEach: Math.random() is called for the first column only and
\* its threshold serves every column of the tick.
ForEachRollOnce(ys, syms, rolls) ==
    LET visits == [i \in 1..Len(ys) |-> Visit(ys[i], i, syms, rolls[1])]
    IN  [ys         |-> [i \in 1..Len(ys) |-> visits[i].y],
         calls      |-> [i \in 1..Len(ys) |-> visits[i].call],
         thresholds |-> <<Threshold(rolls[1])>>]

\* Mutant of ForEach: every visit takes the first column's position for its
\* own.
ForEachNeighbour(ys, syms, rolls) ==
    LET visits == [i \in 1..Len(ys) |-> Visit(ys[1], i, syms, rolls[i])]
    IN  [ys         |-> [i \in 1..Len(ys) |-> visits[i].y],
         calls      |-> [i \in 1..Len(ys) |-> visits[i].call],
         thresholds |-> [i \in 1..Len(ys) |-> visits[i].threshold]]

\* Lines 36-45: yPositions.forEach: the callback visits the indices of the
\* array in ascending order; the visit of column i reads and writes element
\* i only, so the element it reads is the one the array held when forEach
\* began, and it makes the i-th call of Math.random() (rolls[i]).  The
\* result is the array after the last visit, with the fillText calls and
\* the thresholds in the order of the visits.
ForEach(ys, syms, rolls) ==
    LET visits == [i \in 1..Len(ys) |-> Visit(ys[i], i, syms, rolls[i])]
    IN  [ys         |-> [i \in 1..Len(ys) |-> visits[i].y],
         calls      |-> [i \in 1..Len(ys) |-> visits[i].call],
         thresholds |-> [i \in 1..Len(ys) |-> visits[i].threshold]]

\* Lines 30-46: draw(ctx, w, h, columns, symbols, yPositions), with the
\* rolls Math.random() returns to it, in the order it asks for them.  ctx is
\* TRUE for a context and FALSE for null: ctx.fillStyle = ... on null throws
\* a TypeError before any call is made.
draw(ctx, dw, dh, cols, syms, ys, rolls) ==
    IF ~ctx
    THEN [threw |-> TRUE, ys |-> ys, calls |-> <<>>, thresholds |-> <<>>]
    ELSE LET done == ForEach(ys, syms, rolls)
         IN  [threw      |-> FALSE,
              ys         |-> done.ys,
              calls      |-> <<FillRect(0, 0, dw, dh)>> \o done.calls,
              thresholds |-> done.thresholds]

\* The rolls Math.random() can return to one draw over n columns: one roll
\* per column, each chosen freely up to MaxFreeColumns columns; on a wider
\* window the columns of one draw all get the same roll.
RollsFor(n) ==
    IF n <= MaxFreeColumns THEN [1..n -> Rolls]
    ELSE {[i \in 1..n |-> r] : r \in Rolls}

\* ------------------------------------------------------------------- host

\* window.requestAnimationFrame(render): the next handle, added to the list.
RequestAnimationFrame(pending, last) ==
    [handle |-> last + 1, pending |-> pending \cup {last + 1}]

\* Mutant of CancelAnimationFrame: the request stays in the list.
CancelAnimationFrameIgnored(pending, id) == pending

\* window.cancelAnimationFrame(id): id leaves the list; an id that is not in
\* it (undefined included) is ignored.
CancelAnimationFrame(pending, id) == pending \ {id}

\* ----------------------------------------------------------------- render

\* The draws since zero after a draw that found them at `before` and left
\* the array ys: a column the draw reset starts again, the others count it.
Aged(before, ys) ==
    [i \in 1..Len(ys) |-> IF ys[i] = 0 THEN 0 ELSE before[i] + 1]

\* Mutant of render: the frame is drawn and no further frame is requested.
renderOnce(pending, rw, rh, rcols, rsyms, ys, rolls) ==
    LET d == draw(contextAvailable, rw, rh, rcols, rsyms, ys, rolls)
    IN  /\ calls' = d.calls
        /\ thresholds' = d.thresholds
        /\ frames' = frames + (IF d.calls = <<>> THEN 0 ELSE 1)
        /\ yPositions' = d.ys
        /\ raised' = (raised \/ d.threw)
        /\ pendingFrames' = pending
        /\ UNCHANGED <<lastHandle, animationFrameId>>

\* Mutant of render: the next frame is requested and its handle is dropped.
renderStaleId(pending, rw, rh, rcols, rsyms, ys, rolls) ==
    LET d == draw(contextAvailable, rw, rh, rcols, rsyms, ys, rolls)
        r == RequestAnimationFrame(pending, lastHandle)
    IN  /\ calls' = d.calls
        /\ thresholds' = d.thresholds
        /\ frames' = frames + (IF d.calls = <<>> THEN 0 ELSE 1)
        /\ yPositions' = d.ys
        /\ raised' = (raised \/ d.threw)
        /\ animationFrameId' = animationFrameId
        /\ IF d.threw
           THEN /\ pendingFrames' = pending
                /\ lastHandle' = lastHandle
           ELSE /\ pendingFrames' = r.pending
                /\ lastHandle' = r.handle

\* Lines 61-64: render, run by the host (or by the effect) with the callback
\* list `pending`, on the closure's current w, h, columns, symbols and
\* yPositions.  It draws, then requests the next frame and stores its
\* handle; when draw throws, the request is never made.
render(pending, rw, rh, rcols, rsyms, ys, rolls) ==
    LET d == draw(contextAvailable, rw, rh, rcols, rsyms, ys, rolls)
        r == RequestAnimationFrame(pending, lastHandle)
    IN  /\ calls' = d.calls
        /\ thresholds' = d.thresholds
        /\ frames' = frames + (IF d.calls = <<>> THEN 0 ELSE 1)
        /\ yPositions' = d.ys
        /\ raised' = (raised \/ d.threw)
        /\ IF d.threw
           THEN /\ pendingFrames' = pending
                /\ UNCHANGED <<lastHandle, animationFrameId>>
           ELSE /\ pendingFrames' = r.pending
                /\ lastHandle' = r.handle
                /\ animationFrameId' = r.handle

\* Mutant of handleResize: the column positions are not replaced.
handleResizeKeepPositions(iw, ih) ==
    [w |-> iw, h |-> ih, columns |-> ColumnCount(iw), yPositions |-> yPositions]

\* Mutant of handleResize: the positions are kept when the column count is
\* the one in force.
handleResizeIfChanged(iw, ih) ==
    [w |-> iw, h |-> ih, columns |-> ColumnCount(iw),
     yPositions |-> IF ColumnCount(iw) = columns THEN yPositions
                    ELSE Zeros(ColumnCount(iw))]

\* Mutant of handleResize: the height is not read again.
handleResizeWidthOnly(iw, ih) ==
    [w |-> iw, h |-> h, columns |-> ColumnCount(iw),
     yPositions |-> Zeros(ColumnCount(iw))]

\* Lines 67-72: handleResize, the closure's new w, h, columns and yPositions
\* for the window size it reads.
handleResize(iw, ih) ==
    [w |-> iw, h |-> ih, columns |-> ColumnCount(iw),
     yPositions |-> Zeros(ColumnCount(iw))]

\* Mutant of cleanup: nothing is torn down.
cleanupNothing(pending, id) == [pending |-> pending, listening |-> listening]

\* Mutant of cleanup: the frame is cancelled, the listener stays.
cleanupKeepListener(pending, id) ==
    [pending |-> CancelAnimationFrame(pending, id), listening |-> listening]

\* Lines 75-78: the cleanup closure of the effect: the callback list and the
\* listener registration it leaves.
cleanup(pending, id) ==
    [pending |-> CancelAnimationFrame(pending, id), listening |-> FALSE]

\* ------------------------------------------------------------------- Init

\* The component has rendered its canvas element; the effect has not run.
\* The closure's variables do not exist yet: they are empty.
InitFor(widths) ==
    /\ innerWidth \in widths
    /\ innerHeight \in Heights
    /\ canvasPresent \in BOOLEAN
    /\ contextAvailable \in BOOLEAN
    /\ canvasWidth = 0
    /\ canvasHeight = 0
    /\ pendingFrames = {}
    /\ lastHandle = 0
    /\ listening = FALSE
    /\ phase = "rendered"
    /\ unmounted = FALSE
    /\ cancels = 0
    /\ resizes = 0
    /\ raised = FALSE
    /\ w = 0
    /\ h = 0
    /\ columns = 0
    /\ symbols = <<>>
    /\ yPositions = <<>>
    /\ animationFrameId = 0
    /\ lastOp = "none"
    /\ calls = <<>>
    /\ thresholds = <<>>
    /\ frames = 0
    /\ ticks = 0
    /\ unmountTick = -1
    /\ priorW = -1
    /\ sinceZero = <<>>

Init == InitFor(Widths)

\* ---------------------------------------------------------------- actions

\* Lines 48-79: the effect, run once when the component mounts.
Mount ==
    /\ phase = "rendered"
    /\ ~unmounted
    /\ lastOp' = "mount"
    /\ UNCHANGED <<innerWidth, innerHeight, host, unmounted, cancels, resizes,
                   ticks, unmountTick, priorW>>
    /\ IF ~canvasPresent
       THEN \* line 50: if (!canvas) return;
            /\ phase' = "noCanvas"
            /\ calls' = <<>>
            /\ thresholds' = <<>>
            /\ UNCHANGED <<canvasWidth, canvasHeight, pendingFrames, lastHandle,
                           listening, raised, closure, frames, sinceZero>>
       ELSE \* lines 55-59
            /\ canvasWidth' = innerWidth
            /\ canvasHeight' = innerHeight
            /\ w' = innerWidth
            /\ h' = innerHeight
            /\ columns' = ColumnCount(innerWidth)
            /\ symbols' = Palette
            \* line 65: render()
            /\ \E rolls \in RollsFor(ColumnCount(innerWidth)) :
                  render(pendingFrames, w', h', columns', symbols',
                         Zeros(columns'), rolls)
            /\ sinceZero' = Aged(Zeros(columns'), yPositions')
            \* line 73, reached when render() returned
            /\ listening' = ~raised'
            /\ phase' = IF raised' THEN "threw" ELSE "mounted"

\* The host delivers a display refresh: it empties the animation frame
\* callback list and runs the callback that was in it.  render is the only
\* callback ever requested and at most one request of it is pending.  The
\* host hands out handles up to maxId; choices are the sequences of rolls
\* Math.random() can return to the draw.
HostRefreshWith(maxId, choices) ==
    /\ UNCHANGED <<innerWidth, innerHeight, host, canvasWidth, canvasHeight,
                   listening, phase, unmounted, cancels, resizes, w, h,
                   columns, symbols, unmountTick, priorW>>
    /\ IF pendingFrames = {}
       THEN /\ lastOp' = "refresh"
            /\ calls' = <<>>
            /\ thresholds' = <<>>
            /\ UNCHANGED <<pendingFrames, lastHandle, raised, yPositions,
                           animationFrameId, frames, ticks, sinceZero>>
       ELSE /\ lastHandle < maxId
            /\ lastOp' = "tick"
            /\ ticks' = ticks + 1
            /\ \E rolls \in choices :
                  render({}, w, h, columns, symbols, yPositions, rolls)
            /\ sinceZero' = Aged(sinceZero, yPositions')

HostRefresh == HostRefreshWith(MaxFrameId, RollsFor(Len(yPositions)))

\* The host window is resized: it takes its new size, then dispatches
\* 'resize' to the registered listeners.
HostResizeTo(widths) ==
    /\ resizes < MaxResizes
    /\ resizes' = resizes + 1
    /\ lastOp' = "resize"
    /\ calls' = <<>>
    /\ thresholds' = <<>>
    /\ \E iw \in widths, ih \in Heights :
          /\ innerWidth' = iw
          /\ innerHeight' = ih
          /\ IF listening
             THEN LET s == handleResize(iw, ih)
                  IN  /\ canvasWidth' = s.w
                      /\ canvasHeight' = s.h
                      /\ w' = s.w
                      /\ h' = s.h
                      /\ columns' = s.columns
                      /\ yPositions' = s.yPositions
                      /\ priorW' = w
                      /\ sinceZero' = Zeros(s.columns)
             ELSE UNCHANGED <<canvasWidth, canvasHeight, w, h, columns,
                              yPositions, priorW, sinceZero>>
    /\ UNCHANGED <<host, pendingFrames, lastHandle, listening, phase,
                   unmounted, cancels, raised, symbols, animationFrameId,
                   frames, ticks, unmountTick>>

HostResize == HostResizeTo(Widths)

\* The cleanup closure is invoked: by the unmount, or once more afterwards.
RunCleanup ==
    LET c == cleanup(pendingFrames, animationFrameId)
    IN  /\ cancels' = cancels + 1
        /\ pendingFrames' = c.pending
        /\ listening' = c.listening

\* The component unmounts: the effect's cleanup runs, when the effect
\* returned one (line 75 is reached on the "mounted" path only).
Unmount ==
    /\ phase # "rendered"
    /\ ~unmounted
    /\ unmounted' = TRUE
    /\ unmountTick' = ticks
    /\ lastOp' = "unmount"
    /\ calls' = <<>>
    /\ thresholds' = <<>>
    /\ IF phase = "mounted"
       THEN RunCleanup
       ELSE UNCHANGED <<cancels, pendingFrames, listening>>
    /\ UNCHANGED <<innerWidth, innerHeight, host, canvasWidth, canvasHeight,
                   lastHandle, phase, resizes, raised, closure, frames, ticks,
                   priorW, sinceZero>>

\* The cleanup closure is invoked again after the unmount.
CancelAgain ==
    /\ phase = "mounted"
    /\ unmounted
    /\ cancels < MaxCancels
    /\ lastOp' = "cancel"
    /\ calls' = <<>>
    /\ thresholds' = <<>>
    /\ RunCleanup
    /\ UNCHANGED <<innerWidth, innerHeight, host, canvasWidth, canvasHeight,
                   lastHandle, phase, unmounted, resizes, raised, closure,
                   frames, ticks, unmountTick, priorW, sinceZero>>

Next == Mount \/ HostRefresh \/ HostResize \/ Unmount \/ CancelAgain

Spec == Init /\ [][Next]_vars

\* The same renderer on a host whose window is one or two columns wide and
\* is resized at most MaxLiveResizes times, and which keeps delivering
\* display refreshes: the fairness is the claim's hypothesis that refreshes
\* keep coming.
LiveInit == Init /\ innerWidth \in LiveWidths

LiveResize ==
    /\ resizes < MaxLiveResizes
    /\ HostResize
    /\ innerWidth' \in LiveWidths

LiveNext == Mount \/ HostRefresh \/ LiveResize \/ Unmount \/ CancelAgain

LiveSpec == LiveInit /\ [][LiveNext]_vars /\ WF_vars(HostRefresh)

\* The same renderer on a host whose window is 2540 or 2560 wide.
WideInit == InitFor(WideWidths)

WideResize == HostResizeTo(WideWidths)

WideNext == Mount \/ HostRefresh \/ WideResize \/ Unmount \/ CancelAgain

WideSpec == WideInit /\ [][WideNext]_vars

\* The same renderer on a one-column window that is never resized, on a
\* host that hands out MaxTallFrameId handles, with the lowest and the
\* highest roll there is: a column can climb as far as the rolls let it.
TallInit ==
    /\ InitFor(TallWidths)
    /\ innerHeight = 300
    /\ canvasPresent
    /\ contextAvailable

TallRefresh ==
    HostRefreshWith(MaxTallFrameId, [1..Len(yPositions) -> TallRolls])

TallNext == Mount \/ TallRefresh

TallSpec == TallInit /\ [][TallNext]_vars

\* ----------------------------------------------------------------- claims

\* C1, as stated: when the renderer is unmounted right after the mount,
\* before any display refresh ran a tick, no draw call is ever issued and
\* the resize listener is not registered.
C1_NoDrawBeforeFirstTick ==
    unmountTick = 0 => (frames = 0 /\ ~listening)

\* C1, amended: when the renderer is unmounted right after the mount, before
\* any display refresh ran a tick, the only frame ever drawn is the one the
\* mount itself draws (line 65), no tick ever runs, no frame request stays
\* pending and the resize listener is not registered.
C1_OnlyMountFrame ==
    unmountTick = 0 =>
        /\ frames = (IF phase = "mounted" THEN 1 ELSE 0)
        /\ ticks = 0
        /\ pendingFrames = {}
        /\ ~listening

\* C1 witness: a refresh and a resize were delivered after such an unmount.
C1_Witness ==
    /\ unmountTick = 0
    /\ phase = "mounted"
    /\ frames = 1
    /\ lastOp = "refresh"
    /\ resizes = 1

\* C2: once the cleanup has run, no later step (refresh, resize, a second
\* cleanup) draws or raises.
C2_NoDrawAfterCancel ==
    [][cancels' >= 1 => (frames' = frames /\ ticks' = ticks /\ calls' = <<>>
                         /\ ~raised')]_vars

\* C2 witness: ticks and a resize before the cancel, then a second cancel,
\* a resize and a refresh.
C2_Witness ==
    /\ cancels = 2
    /\ unmountTick >= 2
    /\ resizes = 2
    /\ priorW >= 0
    /\ lastOp = "refresh"

\* C3: the column-position array is as long as columnCount, in every state.
C3_LengthIsColumnCount == Len(yPositions) = columns

\* C3 witness: a tick ran after a resize that changed the column count.
C3_Witness ==
    /\ lastOp = "tick"
    /\ priorW = 45
    /\ w = 20
    /\ columns = 2
    /\ yPositions = <<20, 20>>

\* C4: right after the resize handler has run, for the new window width W2,
\* columnCount is floor(W2 / 20) + 1 and every column position is 0.
C4_ResizeResets ==
    (lastOp = "resize" /\ listening) =>
        /\ columns = (innerWidth \div 20) + 1
        /\ Len(yPositions) = (innerWidth \div 20) + 1
        /\ \A i \in 1..Len(yPositions) : yPositions[i] = 0

\* C4 witness: a resize from 45 wide to 19 wide, after ticks had advanced
\* the three columns.
C4_Witness ==
    /\ lastOp = "resize"
    /\ listening
    /\ ticks >= 2
    /\ priorW = 45
    /\ innerWidth = 19
    /\ yPositions = <<0>>

\* C5: the first tick after a resize draws the overlay over the new size and
\* then exactly the new columnCount glyphs, all at y = 0, and leaves an
\* array of the new length.
C5_TickAfterResize ==
    [][(lastOp = "resize" /\ listening /\ lastOp' = "tick") =>
          /\ Len(calls') = 1 + ((innerWidth \div 20) + 1)
          /\ calls'[1].op = "fillRect"
          /\ calls'[1].w = innerWidth
          /\ calls'[1].h = innerHeight
          /\ \A i \in 2..Len(calls') :
                /\ calls'[i].op = "fillText"
                /\ calls'[i].y = 0
          /\ Len(yPositions') = (innerWidth \div 20) + 1]_vars

\* C5 witness: the tick after a resize from 45 wide (3 columns) to 19 wide
\* (1 column) has drawn one glyph, at y = 0; no reset can have happened yet.
C5_Witness ==
    /\ lastOp = "tick"
    /\ ticks = 3
    /\ priorW = 45
    /\ w = 19
    /\ Len(calls) = 2
    /\ calls[2].y = 0
    /\ yPositions = <<20>>

\* C6: in every tick, a column drawn at y with threshold t is at 0 afterwards
\* exactly when y > t, and at y + 20 otherwise (the frame drawn by the mount
\* starts from y = 0); no position is ever negative.
C6_ResetRule ==
    /\ [](\A i \in 1..Len(yPositions) : yPositions[i] >= 0)
    /\ [][lastOp' = "tick" =>
            /\ Len(thresholds') = Len(yPositions)
            /\ \A i \in 1..Len(yPositions) :
                  /\ (yPositions'[i] = 0) <=> (yPositions[i] > thresholds'[i])
                  /\ yPositions'[i] # 0 => yPositions'[i] = yPositions[i] + 20]_vars
    /\ [][(lastOp' = "mount" /\ phase' = "mounted") =>
            /\ Len(thresholds') = Len(yPositions')
            /\ \A i \in 1..Len(yPositions') : yPositions'[i] = 20]_vars

\* C6 witness: a tick in which one column drawn at 120 was reset and another,
\* drawn at 120 with the threshold 120, went on to 140.
C6_Witness ==
    /\ lastOp = "tick"
    /\ \E i, j \in 1..Len(yPositions) :
          /\ yPositions[i] = 0
          /\ thresholds[i] = 100
          /\ yPositions[j] = 140
          /\ thresholds[j] = 120

\* C7, as stated: when the canvas element is missing or its 2D context
\* cannot be acquired, the mount and every tick raise no error, issue no
\* draw call and request nothing of the surface again.
C7_SilentWithoutSurface ==
    (~canvasPresent \/ ~contextAvailable) =>
        /\ ~raised
        /\ frames = 0
        /\ calls = <<>>
        /\ pendingFrames = {}

\* C8: after the unmount, on every mount path, no frame request is pending
\* and no resize listener is registered, and no later step changes the
\* closure, the canvas or what has been drawn.
C8_TornDown ==
    /\ [](unmounted => (pendingFrames = {} /\ ~listening))
    /\ [][unmounted =>
            /\ UNCHANGED <<closure, canvasWidth, canvasHeight, frames, ticks>>
            /\ calls' = <<>>]_vars

\* C8 witness: after the unmount of a running renderer the window was
\* resized to another width and a refresh was delivered.
C8_Witness ==
    /\ unmounted
    /\ phase = "mounted"
    /\ unmountTick >= 1
    /\ innerWidth # w
    /\ lastOp = "refresh"

\* The state of the animation driver: Idle until render has started the
\* loop, Running from then on, Cancelled once the cleanup has run.
DriverState ==
    IF cancels > 0 THEN "Cancelled"
    ELSE IF phase = "mounted" THEN "Running"
    ELSE "Idle"

\* C9: the driver goes Idle -> Running -> Cancelled only; Cancelled is
\* terminal and has no request pending; while Running exactly one frame
\* request is pending, the one animationFrameId names; Idle has none.
C9_Lifecycle ==
    /\ [](DriverState = "Running" =>
             (Cardinality(pendingFrames) = 1 /\ animationFrameId \in pendingFrames))
    /\ [](DriverState # "Running" => pendingFrames = {})
    /\ [][/\ DriverState = "Idle" => DriverState' \in {"Idle", "Running"}
          /\ DriverState = "Running" => DriverState' \in {"Running", "Cancelled"}
          /\ DriverState = "Cancelled" => DriverState' = "Cancelled"
          /\ DriverState' = "Cancelled" => (ticks' = ticks /\ calls' = <<>>)]_vars

\* C9 witness: a cancelled driver that ran, was resized, and has since seen
\* a refresh.
C9_Witness ==
    /\ DriverState = "Cancelled"
    /\ unmountTick >= 3
    /\ priorW >= 0
    /\ lastOp = "refresh"
    /\ resizes = 2

\* C10: while the driver is Running every display refresh runs the
\* Compositor exactly once, and (LiveSpec: the host keeps refreshing) a
\* Running driver goes on ticking until it is cancelled: it never stops
\* short of the last frame handle the host hands out.
C10_OncePerRefresh ==
    /\ [][(DriverState = "Running" /\ lastOp' \in {"tick", "refresh"}) =>
            /\ lastOp' = "tick"
            /\ frames' = frames + 1
            /\ ticks' = ticks + 1
            /\ Len(calls') = 1 + columns]_vars
    /\ (DriverState = "Running")
          ~> (DriverState = "Cancelled" \/ ticks = MaxFrameId - 1)

\* C10 witness: a running driver that has ticked as often as the handle
\* bound allows.
C10_Witness ==
    /\ DriverState = "Running"
    /\ ticks = MaxFrameId - 1
    /\ frames = MaxFrameId
    /\ lastOp = "tick"

\* C11: right after the mount, columnCount is floor(W / 20) + 1 for the
\* window width W, and the first run of the Compositor (the one the mount
\* makes) has drawn exactly columnCount glyphs, all at y = 0: the state it
\* read was columnCount zeros.
C11_MountColumns ==
    (lastOp = "mount" /\ canvasPresent) =>
        /\ columns = (innerWidth \div 20) + 1
        /\ phase = "mounted" =>
              /\ Len(calls) = 1 + ((innerWidth \div 20) + 1)
              /\ \A i \in 2..Len(calls) : calls[i].y = 0
              /\ Len(yPositions) = (innerWidth \div 20) + 1

\* C11 witness: a mount in a window 45 wide has drawn three columns.
C11_Witness ==
    /\ lastOp = "mount"
    /\ phase = "mounted"
    /\ innerWidth = 45
    /\ columns = 3
    /\ Len(calls) = 4

\* A tick in which no column drawn exceeds its threshold advances every
\* position by 20; so does the first tick after a resize, whatever the rolls.
TickAdvancesAll ==
    /\ [][(lastOp' = "tick"
             /\ \A i \in 1..Len(yPositions) : yPositions[i] <= thresholds'[i]) =>
            /\ Len(yPositions') = Len(yPositions)
            /\ \A i \in 1..Len(yPositions) :
                  yPositions'[i] = yPositions[i] + 20]_vars
    /\ [][(lastOp = "resize" /\ listening /\ lastOp' = "tick") =>
            \A i \in 1..Len(yPositions') : yPositions'[i] = 20]_vars

\* C12, as stated: a tick without a column beyond its threshold advances all
\* positions by 20, and the first tick after the mount and the first tick
\* after a resize leave every position at 20.
C12_FirstTickGives20 ==
    /\ TickAdvancesAll
    /\ [][(ticks = 0 /\ lastOp' = "tick") =>
            \A i \in 1..Len(yPositions') : yPositions'[i] = 20]_vars

\* C12, amended: a tick without a column beyond its threshold advances all
\* positions by 20; the frame the mount itself draws (the first run of the
\* Compositor) and the first tick after a resize turn all zeros into all
\* 20s, whatever the rolls; the first tick that follows the mount directly
\* starts from all 20s and leaves all 40s.
C12_MountFrameGives20 ==
    /\ TickAdvancesAll
    /\ [][(lastOp' = "mount" /\ phase' = "mounted") =>
            /\ Len(yPositions') = (innerWidth \div 20) + 1
            /\ \A i \in 1..Len(yPositions') : yPositions'[i] = 20]_vars
    /\ [][(lastOp = "mount" /\ lastOp' = "tick") =>
            \A i \in 1..Len(yPositions') : yPositions'[i] = 40]_vars

\* C12 witness: the first tick after a resize from 19 wide to 45 wide left
\* three columns at 20, one of them with the lowest threshold there is.
C12_Witness ==
    /\ lastOp = "tick"
    /\ ticks = 2
    /\ priorW = 19
    /\ w = 45
    /\ yPositions = <<20, 20, 20>>
    /\ thresholds[2] = 100

\* C13, as stated: every glyph drawn is an entry of the 128-entry palette:
\* the glyph of column i (the call after the overlay and the i columns
\* before it) is looked up within the palette and is its entry i.
C13_GlyphsInPalette ==
    \A k \in 2..Len(calls) :
        /\ calls[k].op = "fillText"
        /\ k - 1 <= 128
        /\ calls[k].text = 12448 + (k - 2)

\* C14: the palette is created once, by the mount, as 128 contiguous
\* codepoints (each entry is its predecessor plus one), and once created it
\* is the same in every later state: no tick, resize, unmount or cancel
\* changes it.
C14_PaletteFixed ==
    /\ [](\/ symbols = <<>> /\ phase \in {"rendered", "noCanvas"}
          \/ /\ phase \in {"mounted", "threw"}
             /\ Len(symbols) = 128
             /\ \A i \in 1..127 : symbols[i + 1] = symbols[i] + 1)
    /\ [][symbols # <<>> => symbols' = symbols]_vars

\* C14's case: the palette exists and ticks and a resize have happened since
\* the mount created it.
C14_Witness ==
    /\ symbols # <<>>
    /\ ticks >= 2
    /\ resizes >= 1
    /\ lastOp = "tick"

\* C16: every tick rolls one threshold per column of the array, columnCount
\* of them, in column order, each 100 plus a fresh roll below 10000; the new
\* position of column i is decided by its position before the tick and the
\* i-th threshold of this tick alone.
C16_RollPerColumn ==
    [][lastOp' = "tick" =>
          /\ Len(thresholds') = columns
          /\ \A i \in 1..columns :
                /\ thresholds'[i] \in 100..10099
                /\ yPositions'[i] = IF yPositions[i] > thresholds'[i]
                                    THEN 0
                                    ELSE yPositions[i] + 20]_vars

\* C16 witness: a tick over three columns, all drawn at 120, rolled three
\* different thresholds; the column that rolled 100 was reset, the other two
\* went on.
C16_Witness ==
    /\ lastOp = "tick"
    /\ thresholds = <<100, 120, 10099>>
    /\ yPositions = <<0, 140, 140>>

\* C17: the draw calls of every tick are, in this order: one fill of the
\* whole surface (a fillRect from the origin over w by h, never a clear),
\* then exactly one fillText per column, in ascending column order, column i
\* (from 0) at x = 20 * i and at the y the column had before the tick's
\* update.
C17_DrawOrder ==
    [][lastOp' = "tick" =>
          /\ Len(calls') = 1 + columns
          /\ calls'[1].op = "fillRect"
          /\ <<calls'[1].x, calls'[1].y>> = <<0, 0>>
          /\ <<calls'[1].w, calls'[1].h>> = <<canvasWidth, canvasHeight>>
          /\ \A i \in 0..(columns - 1) :
                /\ calls'[i + 2].op = "fillText"
                /\ calls'[i + 2].x = 20 * i
                /\ calls'[i + 2].y = yPositions[i + 1]]_vars

\* C17 witness: a tick over three columns that stood at different
\* positions (the first had just been reset): each was drawn where it stood
\* and then moved on.
C17_Witness ==
    /\ lastOp = "tick"
    /\ Len(calls) = 4
    /\ <<calls[2].x, calls[3].x, calls[4].x>> = <<0, 20, 40>>
    /\ <<calls[2].y, calls[3].y, calls[4].y>> = <<0, 140, 140>>
    /\ yPositions[1] = 20

\* C18: every resize the handler receives replaces the column state by an
\* array of zeros for the new width, whatever the old positions were and
\* also when the width (and so the column count) is the one it already had.
C18_ResizeDiscards ==
    [][(listening /\ lastOp' = "resize") =>
          yPositions' = [i \in 1..((innerWidth' \div 20) + 1) |-> 0]]_vars

\* C18 witness: the first resize, to the width the window already had, after
\* one to four ticks had moved the three columns off zero (no column can
\* have been reset that early).
C18_Witness ==
    /\ lastOp = "resize"
    /\ listening
    /\ resizes = 1
    /\ ticks \in 1..4
    /\ priorW = 45
    /\ w = 45
    /\ yPositions = <<0, 0, 0>>

\* C19: a tick runs on one array from its first read to its last write: the
\* array it started with has the columnCount in force, the tick draws and
\* rolls once for each of its elements and leaves an array of the same
\* length, and the renderer's width, height and column count are the same
\* after the tick as before it.  The column state changes in no step other
\* than the mount (which creates it and draws the first frame), a tick and
\* a resize.
C19_TickAtomic ==
    /\ [][lastOp' = "tick" =>
            /\ Len(yPositions) = columns
            /\ Len(yPositions') = columns
            /\ Len(calls') = columns + 1
            /\ Len(thresholds') = columns
            /\ <<w', h', columns'>> = <<w, h, columns>>
            /\ <<canvasWidth', canvasHeight'>> = <<canvasWidth, canvasHeight>>]_vars
    /\ [][yPositions' # yPositions =>
            lastOp' \in {"mount", "tick", "resize"}]_vars

\* C19 witness: the second tick after a resize from one column to three ran
\* on the three-column array alone.
C19_Witness ==
    /\ lastOp = "tick"
    /\ priorW = 19
    /\ w = 45
    /\ Len(calls) = 4
    /\ yPositions = <<40, 40, 40>>

\* C20: once the renderer is set up, the surface's width and height are the
\* renderer's stored w and h; while its resize listener is registered (so at
\* every tick) they are the window's size, read at the mount or at the last
\* resize; and the overlay of every tick is a fill from the origin over the
\* whole surface.
C20_SurfaceMatches ==
    /\ [](phase \in {"mounted", "threw"} =>
            <<canvasWidth, canvasHeight>> = <<w, h>>)
    /\ [](listening => <<w, h>> = <<innerWidth, innerHeight>>)
    /\ [][lastOp' = "tick" =>
            /\ listening
            /\ calls'[1].op = "fillRect"
            /\ <<calls'[1].x, calls'[1].y>> = <<0, 0>>
            /\ <<calls'[1].w, calls'[1].h>> = <<canvasWidth', canvasHeight'>>
            /\ <<canvasWidth', canvasHeight'>> = <<innerWidth', innerHeight'>>]_vars

\* C20 witness: a tick after two resizes, the last one from 45 wide to 20 by
\* 600, filled 20 by 600.
C20_Witness ==
    /\ lastOp = "tick"
    /\ resizes = 2
    /\ priorW = 45
    /\ <<canvasWidth, canvasHeight>> = <<20, 600>>
    /\ <<calls[1].w, calls[1].h>> = <<20, 600>>

\* C21: while the driver is Running the pending frame requests are exactly
\* the one request animationFrameId names, the latest the host handed out;
\* every tick replaces the request that fired by one new request and stores
\* its id; so the one cancel of the unmount, between whichever two ticks it
\* comes, leaves no request pending.
C21_OnePendingId ==
    /\ [](DriverState = "Running" =>
            (pendingFrames = {animationFrameId} /\ animationFrameId = lastHandle))
    /\ [][lastOp' = "tick" =>
            /\ animationFrameId' \notin pendingFrames
            /\ pendingFrames' = {animationFrameId'}]_vars
    /\ [][(DriverState = "Running" /\ lastOp' = "unmount") =>
            /\ pendingFrames' = pendingFrames \ {animationFrameId}
            /\ pendingFrames' = {}]_vars

\* C21 witness: the unmount came after the third tick and a resize that
\* followed it; the request of that tick, the fourth handed out, was the one
\* cancelled.
C21_Witness ==
    /\ lastOp = "unmount"
    /\ unmountTick = 3
    /\ animationFrameId = 4
    /\ resizes >= 1
    /\ pendingFrames = {}
    /\ yPositions = <<0, 0>>

\* C22: every column position is a multiple of 20 from 0 to 10100, in every
\* state, and a tick that finds a column at 10100 resets it, whatever it
\* rolls (every threshold is below 10100).
C22_PositionRange ==
    /\ [](\A i \in 1..Len(yPositions) :
            /\ yPositions[i] % 20 = 0
            /\ yPositions[i] >= 0
            /\ yPositions[i] <= 10100)
    /\ [][lastOp' = "tick" =>
            \A i \in 1..Len(yPositions) :
               /\ thresholds'[i] < 10100
               /\ yPositions[i] = 10100 => yPositions'[i] = 0]_vars

\* C22 witness: a tick drew the column at 10100, rolled the highest
\* threshold there is, and reset it.
C22_Witness ==
    /\ lastOp = "tick"
    /\ calls[2].y = 10100
    /\ thresholds = <<10099>>
    /\ yPositions = <<0>>

C24_ResetWithin506 ==
    /\ [](\A i \in 1..Len(sinceZero) : sinceZero[i] <= 505)
    /\ [][lastOp' = "tick" =>
            \A i \in 1..Len(yPositions) :
               /\ yPositions'[i] = 0 \/ sinceZero'[i] = sinceZero[i] + 1
               /\ yPositions'[i] = 0 => sinceZero'[i] = 0
               /\ sinceZero[i] = 505 => yPositions'[i] = 0]_vars

\* C24 witness: the column was reset by the sixth tick, survived the 505
\* ticks that followed and was reset by the 506th, the tick 512.
C24_Witness ==
    /\ lastOp = "tick"
    /\ ticks = 512
    /\ resizes = 0
    /\ calls[2].y = 10100
    /\ sinceZero = <<0>>

\* C25: a tick changes the column positions and the pending frame request
\* (and draws): it leaves the width, the height, the column count, the
\* array's length, the palette, the surface size and the listener as they
\* were, and the new position of column i is 0 or its old position plus 20,
\* as its own old position and its own threshold decide.  A resize the
\* handler receives changes the width, the height, the column count and the
\* column state (and the surface size): it issues no draw call and leaves
\* the pending frame request, its id and the palette as they were.
C25_FrameConditions ==
    /\ [][lastOp' = "tick" =>
            /\ UNCHANGED <<w, h, columns, symbols, canvasWidth, canvasHeight,
                           listening, phase>>
            /\ Len(yPositions') = Len(yPositions)
            /\ animationFrameId' # animationFrameId
            /\ \A i \in 1..Len(yPositions) :
                  yPositions'[i] = IF yPositions[i] > thresholds'[i]
                                   THEN 0
                                   ELSE yPositions[i] + 20]_vars
    /\ [][lastOp' = "resize" =>
            /\ calls' = <<>>
            /\ frames' = frames
            /\ UNCHANGED <<pendingFrames, animationFrameId, lastHandle,
                           symbols, listening, phase>>
            /\ listening =>
                  /\ <<w', h'>> = <<innerWidth', innerHeight'>>
                  /\ columns' = (innerWidth' \div 20) + 1
                  /\ Len(yPositions') = columns']_vars

\* C25 witness: a second resize came after the third tick: the request of
\* that tick is still the one pending, and nothing was drawn.
C25_Witness ==
    /\ lastOp = "resize"
    /\ listening
    /\ resizes = 2
    /\ ticks = 3
    /\ frames = 4
    /\ pendingFrames = {4}
    /\ animationFrameId = 4
    /\ priorW = 20
    /\ w = 45
    /\ calls = <<>>

====
